---- MODULE Spec2Model ----
(***************************************************************************)
(* The call-graph builder of libsolidity/analysis/FunctionCallGraph.cpp.   *)
(*                                                                         *)
(* The state is the builder's state (the edge map, the created-contracts   *)
(* set, the current node, the current dispatch node), the position of the  *)
(* constructor of FunctionCallGraphBuilder and the stack of AST subtrees   *)
(* whose traversal is in progress.  The input contract (prog) is drawn in  *)
(* Init.  An AST subtree is modelled by the sequence of the nodes in it    *)
(* that the builder has a handler for, in traversal order.                 *)
(***************************************************************************)
EXTENDS Integers, Sequences, FiniteSets, TLC

VARIABLES
    prog,               \* the analysed contract (input, never modified)
    edges,              \* m_graph->edges: Node -> set of Node, DOMAIN = keys
    createdContracts,   \* m_graph->createdContracts
    m_currentNode,      \* optional<Node>
    m_currentDispatch,  \* Node
    pc,                 \* position in FunctionCallGraphBuilder's constructor
    ci,                 \* index in the reversed linearization (creation loop)
    ii,                 \* index in interfaceFunctionList (runtime loop)
    stack,              \* accept() calls in progress, innermost last
    visits,             \* history: number of visitCallable calls per callable
    calls               \* history: the processFunction calls made so far

vars == <<prog, edges, createdContracts, m_currentNode, m_currentDispatch,
          pc, ci, ii, stack, visits, calls>>

\* ------------------------------------------------------------------ bounds

\* Reference nodes (identifiers, member accesses, modifier invocations, new
\* expressions) in the whole input contract.
MaxRefs == 2

\* Entries of the external interface of the input contract.
MaxInterface == 2

\* Depth of nested accept() calls after which the C++ call stack is taken to
\* be exhausted.
StackLimit == 6

\* ------------------------------------------------------------------- nodes

Decl(c, n) == [contract |-> c, name |-> n]

SpecialNode(n) == Decl("SpecialNode", n)

EntryCreation == SpecialNode("EntryCreation")

InternalCreationDispatch == SpecialNode("InternalCreationDispatch")

Entry == SpecialNode("Entry")

InternalDispatch == SpecialNode("InternalDispatch")

SpecialNodes == {EntryCreation, InternalCreationDispatch, Entry, InternalDispatch}

\* The empty optional<Node>.
nullopt == Decl("", "nullopt")

\* --------------------------------------------------------------- the input

\* Two contracts: A, and B which inherits from A.  B may override A's virtual
\* function f and A's virtual modifier m; g is a non-virtual function of A and
\* h a non-virtual function of B.
linearizedBaseContracts(c) == IF c = "B" THEN <<"B", "A">> ELSE <<"A">>

\* Mutant of Reverse: the sequence is left in its order.
ReverseNot(s) == s

\* views::reverse
Reverse(s) == [i \in 1..Len(s) |-> s[Len(s) + 1 - i]]

Range(s) == {s[i] : i \in 1..Len(s)}

constructor(c) == Decl(c, "constructor")

stateVariables(c) == Decl(c, "stateVariables")

baseContracts(c) == Decl(c, "baseContracts")

fallbackFunction == Decl("A", "fallback")

receiveFunction == Decl("A", "receive")

\* Whether contract c of program p defines a function or modifier named n.
Defines(p, c, n) ==
    \/ c = "A" /\ n \in {"f", "g", "m"}
    \/ c = "B" /\ p.contract = "B" /\ p.overrides /\ n \in {"f", "m"}
    \/ c = "B" /\ p.contract = "B" /\ n = "h"

virtualSemantics(d) == d.name \in {"f", "m"}

IndexOf(s, x) == CHOOSE i \in 1..Len(s) : s[i] = x

Min(S) == CHOOSE x \in S : \A y \in S : x <= y

\* CallableDeclaration::resolveVirtual(_mostDerivedContract, _searchStart):
\* the first definition of d's name in the linearization of the most derived
\* contract, searched from _searchStart on ("" is the null pointer); nullopt
\* stands for its "not found" assertion failure.
resolveVirtual(p, d, searchStart) ==
    IF searchStart = "" /\ ~virtualSemantics(d)
    THEN d
    ELSE LET lin == linearizedBaseContracts(p.contract)
             from == IF searchStart = "" THEN 1 ELSE IndexOf(lin, searchStart)
             found == {i \in from..Len(lin) : Defines(p, lin[i], d.name)}
         IN IF found = {} THEN nullopt ELSE Decl(lin[Min(found)], d.name)

\* ContractDefinition::superContract(_mostDerivedContract): the contract that
\* follows c in the linearization of the most derived contract.
superContract(p, c) ==
    LET lin == linearizedBaseContracts(p.contract)
    IN lin[IndexOf(lin, c) + 1]

\* The callables of program p (declarations with a body).
Callables(p) ==
    {d \in [contract : Range(linearizedBaseContracts(p.contract)), name : {"f", "g", "h", "m"}]
        : Defines(p, d.contract, d.name)}
    \cup {constructor(c) : c \in p.constructors}
    \cup (IF p.fallback THEN {fallbackFunction} ELSE {})
    \cup (IF p.receive THEN {receiveFunction} ELSE {})

AllCallables ==
    [contract : {"A", "B"}, name : {"f", "m", "constructor"}]
    \cup {Decl("A", "g"), Decl("B", "h"), fallbackFunction, receiveFunction}

\* The subtrees accept() is called on: bodies of callables, and per contract
\* its state variables and its inheritance specifiers.
Owners(p) ==
    Callables(p)
    \cup {stateVariables(c) : c \in Range(linearizedBaseContracts(p.contract))}
    \cup (IF p.contract = "B" THEN {baseContracts("B")} ELSE {})

\* A reference node of the AST with the annotations the builder reads.
\*   node                   Identifier | MemberAccess | ModifierInvocation | NewExpression
\*   referencedDeclaration  annotation().referencedDeclaration (for a
\*                          NewExpression: the contract named by typeName())
\*   calledDirectly         annotation().calledDirectly
\*   requiredLookup         annotation().requiredLookup
\*   kind                   FunctionType::Kind of annotation().type ("Internal",
\*                          "External", "Event"), "Contract" for a contract
\*                          type, "Other" for any other type
\*   expression             MemberAccess only: the type of expression():
\*                          "super" (TypeType of a super ContractType),
\*                          "contract" (TypeType of a plain ContractType), "other"
\*   expressionContract     the contract that ContractType names
Ref(node, d, direct, lookup, kind, expr, exprContract) ==
    [node |-> node, referencedDeclaration |-> d, calledDirectly |-> direct,
     requiredLookup |-> lookup, kind |-> kind, expression |-> expr,
     expressionContract |-> exprContract]

\* The declaration the name n denotes in the code of contract c.
Visible(p, c, n) ==
    IF c = "B" /\ Defines(p, "B", n) THEN Decl("B", n) ELSE Decl("A", n)

\* f, g, h used by name: called (calledDirectly) or taken as a function value.
IdentifierRefs(p, c) ==
    {Ref("Identifier", Visible(p, c, n), direct, "Virtual", "Internal", "-", "")
        : n \in {"f", "g"} \cup (IF c = "B" THEN {"h"} ELSE {}), direct \in BOOLEAN}

\* An event used by name (emit Ev(...)).
EventRefs == {Ref("Identifier", Decl("A", "Ev"), TRUE, "Virtual", "Event", "-", "")}

\* super.f, in the code of B only.
SuperRefs(c) ==
    IF c = "B"
    THEN {Ref("MemberAccess", Decl("A", "f"), direct, "Super", "Internal", "super", "B")
            : direct \in BOOLEAN}
    ELSE {}

\* A.f and A.g: a function named through its contract.
StaticRefs ==
    {Ref("MemberAccess", Decl("A", n), direct, "Static", "Internal", "contract", "A")
        : n \in {"f", "g"}, direct \in BOOLEAN}

\* this.g: a member access whose type is an external function type.
ExternalRefs == {Ref("MemberAccess", Decl("A", "g"), TRUE, "Static", "External", "other", "")}

\* m (virtual lookup) and A.m (static lookup) in a function header.
ModifierRefs(p, c) ==
    {Ref("ModifierInvocation", Visible(p, c, "m"), TRUE, "Virtual", "Other", "-", ""),
     Ref("ModifierInvocation", Decl("A", "m"), TRUE, "Static", "Other", "-", "")}

\* new C(...), and new of a type that is no contract (new uint[](n)).
NewRefs ==
    {Ref("NewExpression", Decl("C", "contract"), TRUE, "-", "Contract", "-", ""),
     Ref("NewExpression", Decl("", "uint[]"), TRUE, "-", "Other", "-", "")}

IsFunctionOrConstructor(o) ==
    o.name \in {"f", "g", "h", "constructor", "fallback", "receive"}

\* The reference nodes that well-typed code of owner o can contain.
RefsAt(p, o) ==
    IdentifierRefs(p, o.contract) \cup EventRefs \cup SuperRefs(o.contract)
    \cup StaticRefs \cup ExternalRefs \cup NewRefs
    \cup (IF IsFunctionOrConstructor(o) THEN ModifierRefs(p, o.contract) ELSE {})

\* The reference nodes of owner o, in traversal order.
SitesOf(p, o) == SelectSeq(p.sites, LAMBDA s : s.owner = o)

Body(p, o) == [i \in 1..Len(SitesOf(p, o)) |-> SitesOf(p, o)[i].ref]

\* interfaceFunctionList(): external functions of the most derived contract
\* (the most derived f, g, and h of B) and getters of public state variables.
Getter == Decl("A", "x")

InterfaceDeclarations(p) ==
    {resolveVirtual(p, Decl("A", "f"), ""), Decl("A", "g"), Getter}
    \cup (IF p.contract = "B" THEN {Decl("B", "h")} ELSE {})

IsFunctionDefinition(d) ==
    d.name \in {"f", "g", "h", "fallback", "receive", "constructor"}

IsVariableDeclaration(d) == d = Getter

\* ------------------------------------------------------------- the builder

\* FunctionCallGraphBuilder::add: m_graph->edges[_caller].insert(_callee).
\* operator[] makes _caller a key of the map.
add(e, caller, callee) ==
    [n \in DOMAIN e \cup {caller} |->
        IF n = caller
        THEN (IF n \in DOMAIN e THEN e[n] ELSE {}) \cup {callee}
        ELSE e[n]]

\* Mutant of IsKey: no node is ever found in the edge map.
IsKeyNever(e, n) == FALSE

\* m_graph->edges.count(n) != 0
IsKey(e, n) == n \in DOMAIN e

HasEdge(e, a, b) == a \in DOMAIN e /\ b \in e[a]

\* Mutant of processFunctionEdges: the edge from the current node is added
\* for an indirect reference too.
processFunctionEdgesAlwaysDirect(e, current, dispatch, callable, direct) ==
    LET e1 == IF current # nullopt THEN add(e, current, callable) ELSE e
    IN IF ~direct
       THEN add(add(e1, dispatch, callable), callable, dispatch)
       ELSE e1

\* The edges processFunction adds: one from the current node for a direct
\* call, two with the current dispatch node for an indirect one.
processFunctionEdges(e, current, dispatch, callable, direct) ==
    LET e1 == IF current # nullopt /\ direct THEN add(e, current, callable) ELSE e
    IN IF ~direct
       THEN add(add(e1, dispatch, callable), callable, dispatch)
       ELSE e1

\* Mutant of NotYetVisited: visitCallable is called without the test.
NotYetVisitedAlways(e, callable) == TRUE

\* The test that guards both calls of visitCallable.
NotYetVisited(e, callable) == ~IsKey(e, callable)

Halted == pc \in {"done", "fatal", "overflow"}

Top == stack[Len(stack)]

Frame(owner, kind, previous, from) ==
    [owner |-> owner, pos |-> 1, kind |-> kind, previousNode |-> previous, from |-> from]

\* The traversal of the innermost subtree moves past the node it is at.
Advance(st) == [st EXCEPT ![Len(st)].pos = @ + 1]

Pop(st) == SubSeq(st, 1, Len(st) - 1)

AtEnd == stack # <<>> /\ Top.pos > Len(Body(prog, Top.owner))

\* The node the traversal is at.
CurrentRef == Body(prog, Top.owner)[Top.pos]

AtNode(node) ==
    /\ ~Halted
    /\ stack # <<>>
    /\ ~AtEnd
    /\ CurrentRef.node = node

\* A handler that returns without recording anything.
Skip ==
    /\ stack' = Advance(stack)
    /\ UNCHANGED <<edges, calls, pc, m_currentNode, visits>>

\* Mutant of Fatal: a failed assertion is ignored and the handler returns.
FatalIgnored == Skip

\* A failed solAssert: the build is aborted.
Fatal ==
    /\ pc' = "fatal"
    /\ UNCHANGED <<edges, calls, stack, m_currentNode, visits>>

\* Mutant of visitCallable: the visited callable does not become the current
\* node.
visitCallableSameNode(st, e, callable, from, next) ==
    IF IsKey(e, callable)
    THEN /\ pc' = "fatal"
         /\ stack' = st
         /\ UNCHANGED <<m_currentNode, visits>>
    ELSE /\ stack' = Append(st, Frame(callable, "visitCallable", m_currentNode, from))
         /\ m_currentNode' = m_currentNode
         /\ visits' = [visits EXCEPT ![callable] = @ + 1]
         /\ pc' = next

\* visitCallable up to its call of _callable->accept(*this): st is the stack
\* and e the edge map at the call, next the constructor position to continue at.
visitCallable(st, e, callable, from, next) ==
    IF IsKey(e, callable)
    THEN /\ pc' = "fatal"
         /\ stack' = st
         /\ UNCHANGED <<m_currentNode, visits>>
    ELSE IF Len(st) >= StackLimit
    THEN /\ pc' = "overflow"
         /\ stack' = st
         /\ UNCHANGED <<m_currentNode, visits>>
    ELSE /\ stack' = Append(st, Frame(callable, "visitCallable", m_currentNode, from))
         /\ m_currentNode' = callable
         /\ visits' = [visits EXCEPT ![callable] = @ + 1]
         /\ pc' = next

\* processFunction, called by the handler of the node the traversal is at.
processFunction(callable, direct, from) ==
    LET e == processFunctionEdges(edges, m_currentNode, m_currentDispatch, callable, direct)
    IN /\ edges' = e
       /\ calls' = calls \cup
            {[owner |-> Top.owner, pos |-> Top.pos, callable |-> callable,
              direct |-> direct, current |-> m_currentNode,
              dispatch |-> m_currentDispatch, visit |-> NotYetVisited(e, callable)]}
       /\ IF NotYetVisited(e, callable)
          THEN visitCallable(Advance(stack), e, callable, from, pc)
          ELSE /\ stack' = Advance(stack)
               /\ pc' = IF from = "Identifier" /\ m_currentNode = nullopt
                        THEN "fatal" ELSE pc
               /\ UNCHANGED <<m_currentNode, visits>>

IsCallableDeclaration(d) ==
    d.name \in {"f", "g", "h", "m", "Ev", "constructor", "fallback", "receive"}

IsModifierDefinition(d) == d.name = "m"

\* visit(Identifier)
VisitIdentifier ==
    /\ AtNode("Identifier")
    /\ LET r == CurrentRef
           callable == resolveVirtual(prog, r.referencedDeclaration, "")
       IN IF ~IsCallableDeclaration(r.referencedDeclaration)
          THEN Skip
          ELSE IF r.requiredLookup # "Virtual"
          THEN Fatal
          ELSE IF r.kind # "Internal"
          THEN Skip
          ELSE IF callable = nullopt
          THEN Fatal
          ELSE processFunction(callable, r.calledDirectly, "Identifier")
    /\ UNCHANGED <<prog, createdContracts, m_currentDispatch, ci, ii>>

\* Mutant of newExpressionContracts: nothing is recorded.
newExpressionContractsNone(r) == {}

\* visit(NewExpression): the contract named, if the type is a contract type.
newExpressionContracts(r) ==
    IF r.kind = "Contract" THEN {r.referencedDeclaration.contract} ELSE {}

VisitNewExpression ==
    /\ AtNode("NewExpression")
    /\ createdContracts' = createdContracts \cup newExpressionContracts(CurrentRef)
    /\ Skip
    /\ UNCHANGED <<prog, m_currentDispatch, ci, ii>>

\* endVisit(MemberAccess): whether its assertions hold for r.
memberAccessAsserts(r) ==
    IF r.requiredLookup = "Super"
    THEN r.expression \in {"super", "contract"} => r.expression = "super"
    ELSE r.requiredLookup = "Static"

\* Mutant of memberAccessFunctionDef: a super access is resolved like a plain
\* virtual call, from the most derived contract.
memberAccessFunctionDefVirtual(p, r) ==
    IF r.requiredLookup = "Super" /\ r.expression \in {"super", "contract"}
    THEN resolveVirtual(p, r.referencedDeclaration, "")
    ELSE r.referencedDeclaration

\* endVisit(MemberAccess): the function passed to processFunction.
memberAccessFunctionDef(p, r) ==
    IF r.requiredLookup = "Super" /\ r.expression \in {"super", "contract"}
    THEN resolveVirtual(p, r.referencedDeclaration, superContract(p, r.expressionContract))
    ELSE r.referencedDeclaration

EndVisitMemberAccess ==
    /\ AtNode("MemberAccess")
    /\ LET r == CurrentRef
       IN IF r.kind # "Internal" \/ ~IsFunctionDefinition(r.referencedDeclaration)
          THEN Skip
          ELSE IF ~memberAccessAsserts(r)
          THEN Fatal
          ELSE IF memberAccessFunctionDef(prog, r) = nullopt
          THEN Fatal
          ELSE processFunction(memberAccessFunctionDef(prog, r), r.calledDirectly, "MemberAccess")
    /\ UNCHANGED <<prog, createdContracts, m_currentDispatch, ci, ii>>

\* Mutant of modifierInvocationModifier: the named declaration is used
\* whatever the tag.
modifierInvocationModifierNamed(p, r) == r.referencedDeclaration

\* endVisit(ModifierInvocation): the modifier passed to processFunction.
modifierInvocationModifier(p, r) ==
    IF r.requiredLookup = "Virtual"
    THEN resolveVirtual(p, r.referencedDeclaration, "")
    ELSE r.referencedDeclaration

EndVisitModifierInvocation ==
    /\ AtNode("ModifierInvocation")
    /\ LET r == CurrentRef
       IN IF ~IsModifierDefinition(r.referencedDeclaration)
          THEN Skip
          ELSE IF r.requiredLookup \notin {"Virtual", "Static"}
          THEN Fatal
          ELSE IF modifierInvocationModifier(prog, r) = nullopt
          THEN Fatal
          ELSE processFunction(modifierInvocationModifier(prog, r), TRUE, "ModifierInvocation")
    /\ UNCHANGED <<prog, createdContracts, m_currentDispatch, ci, ii>>

\* Mutant of ReturnVisitCallable: the current node is left as the nested
\* visit set it.
ReturnVisitCallableNoRestore ==
    /\ ~Halted
    /\ AtEnd
    /\ Top.kind = "visitCallable"
    /\ stack' = Pop(stack)
    /\ UNCHANGED <<prog, edges, createdContracts, m_currentNode, m_currentDispatch,
                   pc, ci, ii, visits, calls>>

\* The end of visitCallable: the previous current node is restored; the
\* assertion that follows processFunction in visit(Identifier) is checked.
ReturnVisitCallable ==
    /\ ~Halted
    /\ AtEnd
    /\ Top.kind = "visitCallable"
    /\ stack' = Pop(stack)
    /\ m_currentNode' = Top.previousNode
    /\ pc' = IF Top.from = "Identifier" /\ Top.previousNode = nullopt
             THEN "fatal" ELSE pc
    /\ UNCHANGED <<prog, edges, createdContracts, m_currentDispatch, ci, ii, visits, calls>>

\* The end of stateVar->accept(*this) and of arg->accept(*this).
ReturnAccept ==
    /\ ~Halted
    /\ AtEnd
    /\ Top.kind = "accept"
    /\ stack' = Pop(stack)
    /\ UNCHANGED <<prog, edges, createdContracts, m_currentNode, m_currentDispatch,
                   pc, ci, ii, visits, calls>>

\* The contract the creation loop is at.
CreationContract == Reverse(linearizedBaseContracts(prog.contract))[ci]

\* The creation loop moves to the next contract, or ends.
NextContract ==
    IF ci < Len(linearizedBaseContracts(prog.contract))
    THEN ci' = ci + 1 /\ pc' = "stateVariables"
    ELSE ci' = ci /\ pc' = "endCreation"

\* for (auto const* stateVar: contract->stateVariables()) stateVar->accept(*this);
AcceptStateVariables ==
    /\ pc = "stateVariables"
    /\ stack = <<>>
    /\ stack' = <<Frame(stateVariables(CreationContract), "accept", nullopt, "-")>>
    /\ pc' = "baseContracts"
    /\ UNCHANGED <<prog, edges, createdContracts, m_currentNode, m_currentDispatch,
                   ci, ii, visits, calls>>

\* for (auto arg: contract->baseContracts()) arg->accept(*this);
AcceptBaseContracts ==
    /\ pc = "baseContracts"
    /\ stack = <<>>
    /\ stack' = <<Frame(baseContracts(CreationContract), "accept", nullopt, "-")>>
    /\ pc' = "constructor"
    /\ UNCHANGED <<prog, edges, createdContracts, m_currentNode, m_currentDispatch,
                   ci, ii, visits, calls>>

\* if (contract->constructor()): the edge to the constructor, and the call of
\* contract->constructor()->accept(*this) with the current node as it is.
AcceptConstructor ==
    /\ pc = "constructor"
    /\ stack = <<>>
    /\ IF CreationContract \in prog.constructors
       THEN /\ edges' = add(edges, m_currentNode, constructor(CreationContract))
            /\ stack' = <<Frame(constructor(CreationContract), "constructor", nullopt, "-")>>
            /\ UNCHANGED <<pc, ci>>
       ELSE /\ NextContract
            /\ UNCHANGED <<edges, stack>>
    /\ UNCHANGED <<prog, createdContracts, m_currentNode, m_currentDispatch, ii, visits, calls>>

\* m_currentNode = contract->constructor(), once its accept() has returned.
ReturnConstructor ==
    /\ ~Halted
    /\ AtEnd
    /\ Top.kind = "constructor"
    /\ stack' = Pop(stack)
    /\ m_currentNode' = Top.owner
    /\ NextContract
    /\ UNCHANGED <<prog, edges, createdContracts, m_currentDispatch, ii, visits, calls>>

\* Mutant of EndCreation: the dispatch node is not switched.
EndCreationSameDispatch ==
    /\ pc = "endCreation"
    /\ m_currentNode' = nullopt
    /\ pc' = "interface"
    /\ ii' = 1
    /\ UNCHANGED <<prog, edges, createdContracts, m_currentDispatch, ci, stack, visits, calls>>

\* The end of the creation phase.
EndCreation ==
    /\ pc = "endCreation"
    /\ m_currentNode' = nullopt
    /\ m_currentDispatch' = InternalDispatch
    /\ pc' = "interface"
    /\ ii' = 1
    /\ UNCHANGED <<prog, edges, createdContracts, ci, stack, visits, calls>>

\* One entry of interfaceFunctionList(): a function is visited unless it is a
\* key of the edge map; a getter is ignored.
InterfaceFunction ==
    /\ pc = "interface"
    /\ stack = <<>>
    /\ ii <= Len(prog.interface)
    /\ LET d == prog.interface[ii]
       IN IF IsFunctionDefinition(d)
          THEN IF NotYetVisited(edges, d)
               THEN /\ visitCallable(stack, edges, d, "interface", "interfaceAdd")
                    /\ ii' = ii
               ELSE /\ pc' = "interfaceAdd"
                    /\ UNCHANGED <<stack, m_currentNode, visits, ii>>
          ELSE /\ pc' = IF IsVariableDeclaration(d) THEN pc ELSE "fatal"
               /\ ii' = ii + 1
               /\ UNCHANGED <<stack, m_currentNode, visits>>
    /\ UNCHANGED <<prog, edges, createdContracts, m_currentDispatch, ci, calls>>

\* Mutant of RuntimeRoot: the external functions hang off the creation root.
RuntimeRootCreation == EntryCreation

\* The node the external functions are attached to.
RuntimeRoot == Entry

\* add(SpecialNode::Entry, &functionType->declaration());
InterfaceAdd ==
    /\ pc = "interfaceAdd"
    /\ stack = <<>>
    /\ edges' = add(edges, RuntimeRoot, prog.interface[ii])
    /\ ii' = ii + 1
    /\ pc' = "interface"
    /\ UNCHANGED <<prog, createdContracts, m_currentNode, m_currentDispatch, ci,
                   stack, visits, calls>>

\* Mutant of bridgeEdge: the edge points the other way.
bridgeEdgeReversed(e) == add(e, InternalCreationDispatch, InternalDispatch)

\* The edge from the runtime dispatch to the creation dispatch.
bridgeEdge(e) == add(e, InternalDispatch, InternalCreationDispatch)

\* Mutant of fallbackReceiveEdges: the receive function is forgotten.
fallbackReceiveEdgesNoReceive(p, e) ==
    IF p.fallback THEN add(e, Entry, fallbackFunction) ELSE e

\* The edges from Entry to the fallback and the receive function.
fallbackReceiveEdges(p, e) ==
    LET e1 == IF p.fallback THEN add(e, Entry, fallbackFunction) ELSE e
    IN IF p.receive THEN add(e1, Entry, receiveFunction) ELSE e1

\* The end of the constructor, after the interface loop.
FinishGraph ==
    /\ pc = "interface"
    /\ stack = <<>>
    /\ ii > Len(prog.interface)
    /\ edges' = fallbackReceiveEdges(prog, bridgeEdge(edges))
    /\ m_currentNode' = nullopt
    /\ pc' = "done"
    /\ UNCHANGED <<prog, createdContracts, m_currentDispatch, ci, ii, stack, visits, calls>>

\* -------------------------------------------------------- the input space

\* What kind of reference r is.
Class(r) ==
    IF r.node = "Identifier"
    THEN (IF r.kind = "Event" THEN "event"
          ELSE IF r.calledDirectly THEN "call" ELSE "value")
    ELSE IF r.node = "MemberAccess"
    THEN (IF r.kind = "External" THEN "external"
          ELSE IF r.requiredLookup = "Super"
          THEN (IF r.calledDirectly THEN "superCall" ELSE "superValue")
          ELSE (IF r.calledDirectly THEN "staticCall" ELSE "staticValue"))
    ELSE IF r.node = "ModifierInvocation"
    THEN (IF r.requiredLookup = "Virtual" THEN "modifier" ELSE "modifierStatic")
    ELSE (IF r.kind = "Contract" THEN "new" ELSE "newOther")

\* Source order of the subtrees; the reference nodes of a program are listed
\* in this order.
OwnerOrder ==
    <<stateVariables("A"), constructor("A"), stateVariables("B"), baseContracts("B"),
      constructor("B"), Decl("A", "f"), Decl("B", "f"), Decl("A", "g"), Decl("B", "h"),
      Decl("A", "m"), Decl("B", "m"), fallbackFunction, receiveFunction>>

Rank(o) == IndexOf(OwnerOrder, o)

Injective(s) == \A i, j \in 1..Len(s) : s[i] = s[j] => i = j

WellFormed(p) ==
    /\ p.contract = "A" => ~p.overrides
    /\ p.constructors \subseteq Range(linearizedBaseContracts(p.contract))
    /\ Range(p.interface) \subseteq InterfaceDeclarations(p)
    /\ Injective(p.interface)

\* Contracts without reference nodes.
Shapes(contracts, overrides, constructorSets, interfaceDecls, fallbacks, receives) ==
    {p \in [contract : contracts, overrides : overrides, constructors : constructorSets,
            interface : UNION {[1..n -> interfaceDecls] : n \in 0..MaxInterface},
            fallback : fallbacks, receive : receives, sites : {<<>>}]
        : WellFormed(p)}

\* The reference nodes of the given classes, naming the given declarations,
\* that the given owners of p can contain.
Sites(p, owners, classes, names) ==
    UNION {{[owner |-> o, ref |-> r]
              : r \in {x \in RefsAt(p, o) : /\ Class(x) \in classes
                                            /\ x.referencedDeclaration.name \in names}}
           : o \in owners \cap Owners(p)}

\* The reference nodes are listed owner by owner.
InSourceOrder(s) ==
    \A i \in 1..(Len(s) - 1) : Rank(s[i].owner) <= Rank(s[i + 1].owner)

\* x is one of the shapes with a placement of at most MaxRefs reference nodes.
Family(x, shapes, owners, classes, names) ==
    \E p \in shapes : \E n \in 0..MaxRefs :
        \E s \in [1..n -> Sites(p, owners, classes, names)] :
            /\ InSourceOrder(s)
            /\ x = [p EXCEPT !.sites = s]

\* Call structure in the runtime phase: calls, function values, modifiers and
\* instantiations among f, g and m of a contract without bases.
RuntimePrograms(x) ==
    Family(x, Shapes({"A"}, {FALSE}, {{}}, {Decl("A", "f"), Decl("A", "g")}, {FALSE}, {FALSE}),
           {Decl("A", "f"), Decl("A", "g"), Decl("A", "m")},
           {"call", "value", "modifier", "new"}, {"f", "g", "m", "contract"})

\* The creation phase: state variables, inheritance specifiers and
\* constructors of A and B that call f or take it as a value.
CreationPrograms(x) ==
    Family(x, Shapes({"A", "B"}, {FALSE}, SUBSET {"A", "B"}, {Decl("A", "f")},
                     {FALSE}, {FALSE}),
           {stateVariables("A"), stateVariables("B"), baseContracts("B"),
            constructor("A"), constructor("B"), Decl("A", "f")},
           {"call", "value"}, {"f"})

\* Inheritance: virtual, super and static lookup of f and m in the code of B
\* and of its base A.
InheritancePrograms(x) ==
    Family(x, Shapes({"B"}, BOOLEAN, {{}}, {Decl("B", "h")}, {FALSE}, {FALSE}),
           {Decl("B", "h"), Decl("B", "f"), Decl("A", "f")},
           {"call", "superCall", "superValue", "staticCall", "modifier", "modifierStatic"},
           {"f", "m"})

\* The external entry points: interface functions, getters, fallback and
\* receive, with bodies that call, instantiate or emit.
EntryPrograms(x) ==
    Family(x, Shapes({"A"}, {FALSE}, {{}}, {Decl("A", "f"), Getter}, BOOLEAN, BOOLEAN),
           {Decl("A", "f"), fallbackFunction, receiveFunction},
           {"call", "new", "event"}, {"g", "contract", "Ev"})

\* A constructor and a function with references that are no internal calls
\* (instantiations, new of a type that is no contract, events, external
\* calls), with calls and with modifier invocations.
OtherPrograms(x) ==
    Family(x, Shapes({"A"}, {FALSE}, {{}, {"A"}}, {Decl("A", "f")}, {FALSE}, {FALSE}),
           {constructor("A"), Decl("A", "f")},
           {"call", "new", "newOther", "event", "external", "modifier"},
           {"g", "m", "contract", "uint[]", "Ev"})

Programs(x) ==
    \/ RuntimePrograms(x)
    \/ CreationPrograms(x)
    \/ InheritancePrograms(x)
    \/ EntryPrograms(x)
    \/ OtherPrograms(x)

\* The builder at the start of its constructor.
Constructed ==
    /\ edges = [n \in {} |-> {}]
    /\ createdContracts = {}
    /\ m_currentNode = EntryCreation
    /\ m_currentDispatch = InternalCreationDispatch
    /\ pc = "stateVariables"
    /\ ci = 1
    /\ ii = 1
    /\ stack = <<>>
    /\ visits = [d \in AllCallables |-> 0]
    /\ calls = {}

Init ==
    /\ Programs(prog)
    /\ Constructed

\* The values of annotation().requiredLookup.
VirtualLookup == {"Virtual", "Static", "Super"}

\* What the type of the qualifier of a member access can be.
Expressions == {"super", "contract", "other"}

\* Reference node r with another lookup tag and, for a member access, another
\* qualifier: annotations that the analysis upstream never produces.
Retagged(r, lookup, expr) ==
    IF r.node = "NewExpression"
    THEN r
    ELSE [r EXCEPT !.requiredLookup = lookup,
                   !.expression = IF r.node = "MemberAccess" THEN expr ELSE @]

\* Contract B with references in its constructor and its function h, one of
\* them (or none) re-tagged.
MistaggedPrograms(x) ==
    \E p \in Shapes({"B"}, {TRUE}, {{}, {"B"}}, {Decl("B", "h")}, {FALSE}, {FALSE}) :
      \E n \in 0..MaxRefs :
        \E s \in [1..n -> Sites(p, {constructor("B"), Decl("B", "h")},
                                 {"call", "event", "superCall", "modifier", "new"},
                                 {"f", "m", "Ev", "contract"})] :
          \E i \in 0..n : \E lookup \in VirtualLookup : \E expr \in Expressions :
            /\ InSourceOrder(s)
            /\ x = [p EXCEPT !.sites =
                        [j \in 1..n |->
                            IF j = i
                            THEN [s[j] EXCEPT !.ref = Retagged(@, lookup, expr)]
                            ELSE s[j]]]

MistaggedInit ==
    /\ MistaggedPrograms(prog)
    /\ Constructed

Next ==
    \/ AcceptStateVariables
    \/ AcceptBaseContracts
    \/ AcceptConstructor
    \/ ReturnConstructor
    \/ EndCreation
    \/ InterfaceFunction
    \/ InterfaceAdd
    \/ FinishGraph
    \/ VisitIdentifier
    \/ VisitNewExpression
    \/ EndVisitMemberAccess
    \/ EndVisitModifierInvocation
    \/ ReturnVisitCallable
    \/ ReturnAccept

Spec == Init /\ [][Next]_vars

\* The builder run on a contract with an inconsistent annotation.
MistaggedSpec == MistaggedInit /\ [][Next]_vars

\* The builder is sequential code that runs to the end of the constructor.
FairSpec == Spec /\ WF_vars(Next)

\* --------------------------------------------------------------- claims

Done == pc = "done"

Successors(n) == IF n \in DOMAIN edges THEN edges[n] ELSE {}

\* The callable a reference node resolves to (nullopt: its handler records
\* nothing).
Target(p, r) ==
    IF r.node = "Identifier" /\ r.kind = "Internal"
    THEN resolveVirtual(p, r.referencedDeclaration, "")
    ELSE IF r.node = "MemberAccess" /\ r.kind = "Internal"
    THEN memberAccessFunctionDef(p, r)
    ELSE IF r.node = "ModifierInvocation"
    THEN modifierInvocationModifier(p, r)
    ELSE nullopt

\* The callables that the body of owner o calls directly.
DirectCallees(p, o) ==
    {Target(p, Body(p, o)[i]) : i \in {j \in 1..Len(Body(p, o)) : Body(p, o)[j].calledDirectly}}
        \ {nullopt}

\* C1: during one build visitCallable traverses the body of every callable at
\* most once, however many call sites reference it.
C1_SingleVisit == \A d \in AllCallables : visits[d] <= 1

\* C2: for every contract the build eventually reaches the end of the
\* constructor of FunctionCallGraphBuilder.
C2_Terminates == <>Done

\* A witness of C2: a build of a contract with two callables that call each
\* other has finished.
C2_Witness ==
    /\ Done
    /\ \E d1, d2 \in AllCallables :
        d1 # d2 /\ HasEdge(edges, d1, d2) /\ HasEdge(edges, d2, d1)

\* C3: for a contract A without inheritance whose constructor body calls the
\* internal function f of A directly, the finished graph has the edge
\* constructor(A) -> f, and f is a key of the edge map.
C3_ConstructorCallEdge ==
    (/\ Done
     /\ prog.contract = "A"
     /\ Decl("A", "f") \in DirectCallees(prog, constructor("A")))
        => /\ HasEdge(edges, constructor("A"), Decl("A", "f"))
           /\ Decl("A", "f") \in DOMAIN edges

\* C4: when a resolved call is recorded for a callable that has not been
\* visited, its body is visited at that point, for a direct and for an
\* indirect reference alike; so in the finished graph every direct call in the
\* body of a referenced callable is an edge from that callable.
C4_ReferencedIsVisited ==
    \A c \in calls :
        /\ visits[c.callable] >= 1
        /\ Done => \A t \in DirectCallees(prog, c.callable) : HasEdge(edges, c.callable, t)

\* The positions in the input of the reference nodes that resolve to d.
SitesTargeting(d) ==
    {i \in 1..Len(prog.sites) : Target(prog, prog.sites[i].ref) = d}

Functions == {d \in AllCallables : d.name \in {"f", "g", "h", "m"}}

\* d is referenced, never by a direct call, and processFunction has recorded
\* an indirect reference to it in the runtime phase.
IndirectOnlyAtRuntime(d) ==
    /\ \A i \in SitesTargeting(d) : ~prog.sites[i].ref.calledDirectly
    /\ \E c \in calls :
        c.callable = d /\ ~c.direct /\ c.dispatch = InternalDispatch

CallsFAndSuperF(o) ==
    /\ visits[o] >= 1
    /\ \E i, j \in 1..Len(Body(prog, o)) :
        /\ Class(Body(prog, o)[i]) = "call"
        /\ Body(prog, o)[i].referencedDeclaration.name = "f"
        /\ Class(Body(prog, o)[j]) = "superCall"
        /\ Body(prog, o)[j].referencedDeclaration.name = "f"

\* C6: when B overrides the virtual function f of its base A and a function
\* of B holds both f() and super.f(), the graph of B has, from that function,
\* an edge to B.f and an edge to A.f, two distinct nodes.
C6_SuperAndVirtual ==
    (Done /\ prog.contract = "B" /\ prog.overrides)
        => \A o \in {Decl("B", "f"), Decl("B", "h")} :
            CallsFAndSuperF(o)
                => /\ HasEdge(edges, o, Decl("B", "f"))
                   /\ HasEdge(edges, o, Decl("A", "f"))
                   /\ Decl("B", "f") # Decl("A", "f")

C6_Witness ==
    /\ Done
    /\ prog.contract = "B"
    /\ prog.overrides
    /\ CallsFAndSuperF(Decl("B", "h"))

CreationOwner(o) == o.name \in {"stateVariables", "baseContracts", "constructor"}

IsConstructor(n) == n.name = "constructor"

EntryPoints ==
    Range(prog.interface)
    \cup (IF prog.fallback THEN {fallbackFunction} ELSE {})
    \cup (IF prog.receive THEN {receiveFunction} ELSE {})

\* d is referenced, and only by state-variable initializers, base-constructor
\* arguments and constructor bodies.
ReferencedOnlyFromCreation(d) ==
    /\ SitesTargeting(d) # {}
    /\ \A i \in SitesTargeting(d) : CreationOwner(prog.sites[i].owner)
    /\ d \notin EntryPoints

\* d is in the external interface and no reference node resolves to it.
OnlyInInterface(d) ==
    /\ d \in Range(prog.interface)
    /\ SitesTargeting(d) = {}

Predecessors(d) == {n \in DOMAIN edges : d \in edges[n]}

InterfaceOnlySeparate ==
    \A d \in Functions :
        OnlyInInterface(d)
            => /\ HasEdge(edges, Entry, d)
               /\ \A n \in Predecessors(d) : n # EntryCreation /\ ~IsConstructor(n)

\* C7 as stated: a function referenced only from creation-phase code is no
\* successor of Entry and its incoming edges come from EntryCreation or a
\* constructor; a function that is only in the external interface is a
\* successor of Entry and of neither EntryCreation nor a constructor.
C7_Original ==
    Done =>
        /\ \A d \in Functions :
            ReferencedOnlyFromCreation(d)
                => /\ ~HasEdge(edges, Entry, d)
                   /\ \A n \in Predecessors(d) : n = EntryCreation \/ IsConstructor(n)
        /\ InterfaceOnlySeparate

\* C7 as amended: the incoming edges of a function referenced only from
\* creation-phase code come from EntryCreation, a constructor or
\* InternalCreationDispatch.
C7_RootsSeparate ==
    Done =>
        /\ \A d \in Functions :
            ReferencedOnlyFromCreation(d)
                => /\ ~HasEdge(edges, Entry, d)
                   /\ \A n \in Predecessors(d) :
                        \/ n = EntryCreation
                        \/ IsConstructor(n)
                        \/ n = InternalCreationDispatch
        /\ InterfaceOnlySeparate

C7_Witness ==
    /\ Done
    /\ \E d \in Functions :
        /\ ReferencedOnlyFromCreation(d)
        /\ HasEdge(edges, InternalCreationDispatch, d)
        /\ \E n \in Predecessors(d) : IsConstructor(n)

\* C8: visiting new C adds C to createdContracts and leaves the edge map as it
\* is (no edge, no new key); createdContracts only ever grows.
C8_NewExpressionFrame ==
    [][/\ createdContracts \subseteq createdContracts'
       /\ AtNode("NewExpression")
            => /\ edges' = edges
               /\ CurrentRef.kind = "Contract"
                    => CurrentRef.referencedDeclaration.contract \in createdContracts']_vars

C8_Witness ==
    /\ "C" \in createdContracts
    /\ stack # <<>>
    /\ Top.owner = constructor("A")
    /\ Top.pos > 1
    /\ Body(prog, Top.owner)[Top.pos - 1].node = "NewExpression"

\* C9: every finished graph has the edge InternalDispatch ->
\* InternalCreationDispatch, also without any indirect reference; no other
\* edge joins two special nodes; every successor of InternalCreationDispatch
\* is reached from InternalDispatch through that edge.
C9_BridgeEdge ==
    /\ \A a, b \in SpecialNodes :
        HasEdge(edges, a, b) => a = InternalDispatch /\ b = InternalCreationDispatch
    /\ Done =>
        /\ HasEdge(edges, InternalDispatch, InternalCreationDispatch)
        /\ \A d \in Successors(InternalCreationDispatch) :
            \E n \in Successors(InternalDispatch) : d \in Successors(n)

C9_Witness ==
    /\ Done
    /\ calls # {}
    /\ \A c \in calls : c.direct
    /\ HasEdge(edges, InternalDispatch, InternalCreationDispatch)

\* The successors Entry is to have: the function declarations of the external
\* interface, the fallback and the receive function.
EntryTargets ==
    {d \in Range(prog.interface) : d # Getter}
    \cup (IF prog.fallback THEN {fallbackFunction} ELSE {})
    \cup (IF prog.receive THEN {receiveFunction} ELSE {})

\* C10: in the finished graph the successors of Entry are exactly the function
\* declarations of the external interface, the fallback and the receive
\* function; a getter gives no edge and no node; nothing else ever adds a
\* successor to Entry.
C10_EntrySuccessors ==
    /\ Successors(Entry) \subseteq EntryTargets
    /\ Getter \notin DOMAIN edges
    /\ \A n \in DOMAIN edges : Getter \notin edges[n]
    /\ Done => Successors(Entry) = EntryTargets

C10_Witness ==
    /\ Done
    /\ prog.fallback
    /\ prog.receive
    /\ Getter \in Range(prog.interface)
    /\ Decl("A", "f") \in Range(prog.interface)
    /\ Decl("A", "f") \in DOMAIN edges

\* C11: visitCallable is only ever called for a callable that is not a key of
\* the edge map, from processFunction and from the interface loop alike: a
\* step that starts a visit of d leaves d outside the keys, keys are never
\* removed, and no build of a well-formed contract ends in the fatal state.
C11_VisitOnlyNonKeys ==
    [][/\ \A d \in AllCallables : visits'[d] # visits[d] => d \notin DOMAIN edges'
       /\ DOMAIN edges \subseteq DOMAIN edges'
       /\ pc' # "fatal"]_vars

\* A witness of C11: a reference to a callable that is a key has been
\* recorded without a visit, and the callable was visited once, earlier.
C11_Witness ==
    \E c \in calls :
        /\ ~c.visit
        /\ c.direct
        /\ c.callable # c.owner
        /\ c.callable \in DOMAIN edges
        /\ visits[c.callable] = 1

\* ------------------------------------------- the build as a pure function

\* The builder's members: the graph, the current node, the current dispatch
\* node; ok is FALSE once a solAssert has failed.
BuilderState(e, created, current, dispatch) ==
    [edges |-> e, createdContracts |-> created, m_currentNode |-> current,
     m_currentDispatch |-> dispatch, ok |-> TRUE]

Failed(g) == [g EXCEPT !.ok = FALSE]

RECURSIVE acceptResult(_, _, _, _)

\* visitCallable, from builder state g.
visitCallableResult(p, g, callable) ==
    IF IsKey(g.edges, callable)
    THEN Failed(g)
    ELSE LET h == acceptResult(p, [g EXCEPT !.m_currentNode = callable], callable, 1)
         IN [h EXCEPT !.m_currentNode = g.m_currentNode]

\* processFunction, from builder state g; asserted: the call comes from
\* visit(Identifier), which asserts a current node afterwards.
processFunctionResult(p, g, callable, direct, asserted) ==
    LET e == processFunctionEdges(g.edges, g.m_currentNode, g.m_currentDispatch,
                                  callable, direct)
        g1 == [g EXCEPT !.edges = e]
        g2 == IF NotYetVisited(e, callable) THEN visitCallableResult(p, g1, callable) ELSE g1
    IN IF asserted /\ g2.m_currentNode = nullopt THEN Failed(g2) ELSE g2

\* The handler of reference node r, from builder state g.
visitResult(p, g, r) ==
    IF r.node = "Identifier"
    THEN (IF ~IsCallableDeclaration(r.referencedDeclaration) THEN g
          ELSE IF r.requiredLookup # "Virtual" THEN Failed(g)
          ELSE IF r.kind # "Internal" THEN g
          ELSE IF resolveVirtual(p, r.referencedDeclaration, "") = nullopt THEN Failed(g)
          ELSE processFunctionResult(p, g, resolveVirtual(p, r.referencedDeclaration, ""),
                                     r.calledDirectly, TRUE))
    ELSE IF r.node = "NewExpression"
    THEN [g EXCEPT !.createdContracts = @ \cup newExpressionContracts(r)]
    ELSE IF r.node = "MemberAccess"
    THEN (IF r.kind # "Internal" \/ ~IsFunctionDefinition(r.referencedDeclaration) THEN g
          ELSE IF ~memberAccessAsserts(r) THEN Failed(g)
          ELSE IF memberAccessFunctionDef(p, r) = nullopt THEN Failed(g)
          ELSE processFunctionResult(p, g, memberAccessFunctionDef(p, r),
                                     r.calledDirectly, FALSE))
    ELSE (IF ~IsModifierDefinition(r.referencedDeclaration) THEN g
          ELSE IF r.requiredLookup \notin {"Virtual", "Static"} THEN Failed(g)
          ELSE IF modifierInvocationModifier(p, r) = nullopt THEN Failed(g)
          ELSE processFunctionResult(p, g, modifierInvocationModifier(p, r), TRUE, FALSE))

\* accept(*this) on the subtree o, from its i-th reference node on.
acceptResult(p, g, o, i) ==
    IF ~g.ok \/ i > Len(Body(p, o))
    THEN g
    ELSE acceptResult(p, visitResult(p, g, Body(p, o)[i]), o, i + 1)

\* One turn of the creation loop, for contract c.
creationResult(p, g, c) ==
    LET g1 == acceptResult(p, g, stateVariables(c), 1)
        g2 == acceptResult(p, g1, baseContracts(c), 1)
        g3 == [g2 EXCEPT !.edges = add(g2.edges, g2.m_currentNode, constructor(c))]
        g4 == acceptResult(p, g3, constructor(c), 1)
    IN IF c \in p.constructors /\ g2.ok
       THEN [g4 EXCEPT !.m_currentNode = constructor(c)]
       ELSE g2

RECURSIVE creationLoopResult(_, _, _)

creationLoopResult(p, g, i) ==
    IF ~g.ok \/ i > Len(linearizedBaseContracts(p.contract))
    THEN g
    ELSE creationLoopResult(p,
            creationResult(p, g, Reverse(linearizedBaseContracts(p.contract))[i]), i + 1)

\* One turn of the interface loop, for declaration d.
interfaceResult(p, g, d) ==
    IF IsFunctionDefinition(d)
    THEN LET g1 == IF NotYetVisited(g.edges, d) THEN visitCallableResult(p, g, d) ELSE g
         IN IF g1.ok THEN [g1 EXCEPT !.edges = add(g1.edges, RuntimeRoot, d)] ELSE g1
    ELSE IF IsVariableDeclaration(d) THEN g ELSE Failed(g)

RECURSIVE interfaceLoopResult(_, _, _)

interfaceLoopResult(p, g, i) ==
    IF ~g.ok \/ i > Len(p.interface)
    THEN g
    ELSE interfaceLoopResult(p, interfaceResult(p, g, p.interface[i]), i + 1)

\* FunctionCallGraphBuilder::create: the graph built for contract p.
create(p) ==
    LET g1 == creationLoopResult(p,
                BuilderState([n \in {} |-> {}], {}, EntryCreation, InternalCreationDispatch), 1)
        g2 == [g1 EXCEPT !.m_currentNode = nullopt, !.m_currentDispatch = InternalDispatch]
        g3 == interfaceLoopResult(p, g2, 1)
    IN IF g3.ok
       THEN [g3 EXCEPT !.edges = fallbackReceiveEdges(p, bridgeEdge(g3.edges)),
                       !.m_currentNode = nullopt]
       ELSE g3

\* The builder state of the state machine, for comparison with create.
Built ==
    [edges |-> edges, createdContracts |-> createdContracts,
     m_currentNode |-> m_currentNode, m_currentDispatch |-> m_currentDispatch,
     ok |-> pc # "fatal"]

\* The step-by-step build and the function agree on every finished graph.
CreateAgrees == Done => create(prog) = Built

\* The same contract with its external-interface functions listed, and the
\* reference nodes inside each body discovered, in another order.
Reorderings(p) ==
    {q \in {[p EXCEPT !.interface = [i \in 1..Len(p.interface) |-> p.interface[f[i]]],
                      !.sites = [i \in 1..Len(p.sites) |-> p.sites[s[i]]]]
              : f \in Permutations(1..Len(p.interface)),
                s \in Permutations(1..Len(p.sites))}
        : InSourceOrder(q.sites)}

\* C12: the finished graph does not depend on the traversal order: every
\* reordering of the interface functions and of the references inside the
\* bodies yields the same edge set and the same createdContracts set.
C12_OrderIndependent ==
    Done => \A q \in Reorderings(prog) :
                /\ create(q).edges = edges
                /\ create(q).createdContracts = createdContracts

\* The contracts in the order the creation loop is to process them: most
\* base first.
MostBaseFirst == IF prog.contract = "B" THEN <<"A", "B">> ELSE <<"A">>

\* The constructors of the contracts before the i-th one.
EarlierConstructors(i) ==
    {j \in 1..(i - 1) : MostBaseFirst[j] \in prog.constructors}

Max(S) == CHOOSE x \in S : \A y \in S : y <= x

\* The node that code of the i-th contract outside constructor bodies is
\* attributed to: the constructor of the closest earlier contract that
\* defines one, EntryCreation when there is none.
ChainPredecessor(i) ==
    IF EarlierConstructors(i) = {}
    THEN EntryCreation
    ELSE constructor(MostBaseFirst[Max(EarlierConstructors(i))])

\* The direct calls in the state-variable initializers and the
\* base-constructor arguments of contract c.
InitializerCallees(c) ==
    DirectCallees(prog, stateVariables(c)) \cup DirectCallees(prog, baseContracts(c))

\* C13: the constructors form a chain in the order most base to most derived:
\* each constructor has an edge from the closest earlier constructor
\* (EntryCreation for the first one) and from no other creation node, and the
\* direct calls in state-variable initializers and base-constructor arguments
\* of a contract are edges from that same predecessor.
C13_ConstructorChain ==
    Done => \A i \in 1..Len(MostBaseFirst) :
        /\ MostBaseFirst[i] \in prog.constructors
            => Predecessors(constructor(MostBaseFirst[i])) = {ChainPredecessor(i)}
        /\ \A t \in InitializerCallees(MostBaseFirst[i]) :
            HasEdge(edges, ChainPredecessor(i), t)
        /\ \A c \in calls :
            c.owner \in {stateVariables(MostBaseFirst[i]), baseContracts(MostBaseFirst[i])}
                => c.current = ChainPredecessor(i)

\* A witness of C13: A and B both define a constructor and an initializer or
\* base-constructor argument of B calls a function.
C13_Witness ==
    /\ Done
    /\ prog.constructors = {"A", "B"}
    /\ InitializerCallees("B") # {}
    /\ HasEdge(edges, EntryCreation, constructor("A"))
    /\ HasEdge(edges, constructor("A"), constructor("B"))

\* The traversal is at a reference node.
AtReference == ~Halted /\ stack # <<>> /\ ~AtEnd

\* r is a member access that names an internal function.
InternalFunctionAccess(r) ==
    /\ r.node = "MemberAccess"
    /\ r.kind = "Internal"
    /\ IsFunctionDefinition(r.referencedDeclaration)

\* C14: a member access that names an internal function and is tagged Super,
\* with a qualifier that does not resolve to a contract type, takes the build
\* to the fatal state and records no edge.
C14_SuperWithoutContractAborts ==
    [][(/\ AtReference
        /\ InternalFunctionAccess(CurrentRef)
        /\ CurrentRef.requiredLookup = "Super"
        /\ CurrentRef.expression = "other")
            => pc' = "fatal" /\ edges' = edges]_vars

\* r carries a lookup tag that does not fit its shape.
MistaggedRef(r) ==
    \/ /\ r.node = "Identifier"
       /\ IsCallableDeclaration(r.referencedDeclaration)
       /\ r.requiredLookup # "Virtual"
    \/ /\ InternalFunctionAccess(r)
       /\ r.requiredLookup \notin {"Super", "Static"}
    \/ /\ r.node = "ModifierInvocation"
       /\ IsModifierDefinition(r.referencedDeclaration)
       /\ r.requiredLookup \notin {"Virtual", "Static"}

\* C15: the handler of a reference whose lookup tag does not fit its shape
\* ends the build in the fatal state without recording anything for it, and
\* the fatal state is never left: no graph is returned.
C15_MistaggedAborts ==
    [][/\ (AtReference /\ MistaggedRef(CurrentRef))
            => /\ pc' = "fatal"
               /\ edges' = edges
               /\ createdContracts' = createdContracts
       /\ pc = "fatal" => pc' = "fatal"]_vars

\* A witness of C15: the build was aborted at a mis-tagged reference after
\* edges had been recorded for earlier references.
C15_Witness ==
    /\ pc = "fatal"
    /\ stack # <<>>
    /\ ~AtEnd
    /\ MistaggedRef(CurrentRef)
    /\ calls # {}

CreationPhase == pc \in {"stateVariables", "baseContracts", "constructor", "endCreation"}

\* C16: visitCallable restores the traversal context.  Whenever the traversal
\* is inside a body, before or after any nested visit, the current node is the
\* callable whose visit is innermost, or, in code that the constructor of the
\* builder traverses itself, the node the creation loop has set; the dispatch
\* node is the one of the phase; once the interface loop runs and no visit is
\* in progress, and when the build has finished, the current node is none.
C16_ContextRestored ==
    (pc \notin {"fatal", "overflow"}) =>
        /\ stack # <<>> =>
            m_currentNode = IF Top.kind = "visitCallable"
                            THEN Top.owner
                            ELSE ChainPredecessor(ci)
        /\ m_currentDispatch = IF CreationPhase THEN InternalCreationDispatch
                               ELSE InternalDispatch
        /\ \A c \in calls : ~CreationOwner(c.owner) => c.current = c.owner
        /\ (stack = <<>> /\ ~CreationPhase) => m_currentNode = nullopt

\* A witness of C16: a nested visit started at a call site of a body has
\* returned and the traversal is at the reference that follows the call site.
C16_Witness ==
    /\ ~Halted
    /\ stack # <<>>
    /\ ~AtEnd
    /\ Top.kind = "visitCallable"
    /\ \E c \in calls :
        /\ c.owner = Top.owner
        /\ c.pos = Top.pos - 1
        /\ c.visit
        /\ c.callable # c.owner
        /\ visits[c.callable] = 1

\* The edges between node n and callables, in edge map e.
EdgesWith(e, n) ==
    {<<a, b>> \in (AllCallables \X {n}) \cup ({n} \X AllCallables) : HasEdge(e, a, b)}

\* The position of the builder's constructor is in the runtime phase.
RuntimePhase == pc \in {"interface", "interfaceAdd"}

\* C17: the dispatch node of an indirect reference depends only on the phase.
\* A step adds an edge between InternalCreationDispatch and a callable only in
\* the creation phase and one between InternalDispatch and a callable only in
\* the runtime phase; a callable whose indirect references were all recorded
\* in the runtime phase has no edge to or from InternalCreationDispatch.
C17_DispatchByPhase ==
    /\ [][/\ EdgesWith(edges', InternalCreationDispatch) # EdgesWith(edges, InternalCreationDispatch)
              => CreationPhase
          /\ EdgesWith(edges', InternalDispatch) # EdgesWith(edges, InternalDispatch)
              => RuntimePhase
          /\ \A c \in calls' \ calls :
              ~c.direct => c.dispatch = IF CreationPhase THEN InternalCreationDispatch
                                        ELSE InternalDispatch]_vars
    /\ [](\A d \in AllCallables :
            (\A c \in calls : (c.callable = d /\ ~c.direct) => c.dispatch = InternalDispatch)
                => /\ ~HasEdge(edges, InternalCreationDispatch, d)
                   /\ ~HasEdge(edges, d, InternalCreationDispatch))

\* A witness of C17: the build has finished and a callable was referenced
\* indirectly in the runtime phase only.
C17_Witness ==
    /\ Done
    /\ \E c \in calls :
        /\ ~c.direct
        /\ c.dispatch = InternalDispatch
        /\ HasEdge(edges, InternalDispatch, c.callable)
        /\ HasEdge(edges, c.callable, InternalDispatch)
        /\ ~HasEdge(edges, InternalCreationDispatch, c.callable)

\* The reference node at which the call c was recorded.
RefOf(c) == Body(prog, c.owner)[c.pos]

Modifiers == {Decl("A", "m"), Decl("B", "m")}

\* The modifier an invocation is to resolve to: the most derived override in
\* the analysed contract for the tag Virtual, the named declaration otherwise.
InvokedModifier(r) ==
    IF r.requiredLookup = "Virtual"
    THEN (IF prog.contract = "B" /\ prog.overrides THEN Decl("B", "m") ELSE Decl("A", "m"))
    ELSE r.referencedDeclaration

\* The bodies that visitCallable has traversed.
Traversed(o) == o \in AllCallables /\ visits[o] >= 1

\* C18: a modifier invocation is recorded as a direct call of the modifier it
\* resolves to: the edge current node -> modifier is in the graph, the
\* modifier has been visited, and no edge joins a modifier and a dispatch
\* node; in a finished build every invocation in a traversed body has been
\* recorded.
C18_ModifierIsDirect ==
    /\ \A c \in calls :
        RefOf(c).node = "ModifierInvocation"
            => /\ c.direct
               /\ c.callable = InvokedModifier(RefOf(c))
               /\ HasEdge(edges, c.current, c.callable)
               /\ visits[c.callable] >= 1
    /\ \A m \in Modifiers : \A d \in {InternalDispatch, InternalCreationDispatch} :
        ~HasEdge(edges, m, d) /\ ~HasEdge(edges, d, m)
    /\ Done => \A i \in 1..Len(prog.sites) :
        (prog.sites[i].ref.node = "ModifierInvocation" /\ Traversed(prog.sites[i].owner))
            => HasEdge(edges, prog.sites[i].owner, InvokedModifier(prog.sites[i].ref))

\* A witness of C18: in the graph of B, which overrides m, an invocation of m
\* in a function of the base A was recorded as a call of B.m.
C18_Witness ==
    /\ Done
    /\ prog.overrides
    /\ \E c \in calls :
        /\ RefOf(c).node = "ModifierInvocation"
        /\ RefOf(c).requiredLookup = "Virtual"
        /\ RefOf(c).referencedDeclaration = Decl("A", "m")
        /\ c.callable = Decl("B", "m")
        /\ c.visit

\* The contracts that the body of owner o instantiates.
CreatedIn(p, o) ==
    UNION {newExpressionContracts(Body(p, o)[i])
             : i \in {j \in 1..Len(Body(p, o)) : Body(p, o)[j].node = "NewExpression"}}

\* C19: the body of every callable that is a successor of Entry in the
\* finished graph has been scanned, the fallback and the receive function
\* included: each direct call in it is an edge from the callable and each
\* contract it instantiates is in createdContracts.
C19_EntryBodiesScanned ==
    Done => \A d \in Successors(Entry) \cap AllCallables :
        /\ \A t \in DirectCallees(prog, d) : HasEdge(edges, d, t)
        /\ CreatedIn(prog, d) \subseteq createdContracts

\* C20: a current node exists whenever a reference is processed.  Inside a
\* subtree under traversal the current node is never none; every recorded
\* reference has a current node (EntryCreation or a constructor for code the
\* creation loop traverses, the visited callable otherwise); every direct
\* reference is an edge from it; the assertion after processFunction in
\* visit(Identifier) never takes the build to the fatal state.
C20_CurrentNodeExists ==
    /\ (stack # <<>> /\ pc # "overflow") => m_currentNode # nullopt
    /\ \A c \in calls :
        /\ c.current # nullopt
        /\ c.current = IF CreationOwner(c.owner)
                       THEN ChainPredecessor(IndexOf(MostBaseFirst, c.owner.contract))
                       ELSE c.owner
        /\ c.direct => HasEdge(edges, c.current, c.callable)
    /\ pc # "fatal"

\* A witness of C20: a direct call by name was recorded in the runtime phase
\* and the build has finished.
C20_Witness ==
    /\ Done
    /\ \E c \in calls :
        /\ RefOf(c).node = "Identifier"
        /\ c.direct
        /\ c.dispatch = InternalDispatch
        /\ c.owner \in Range(prog.interface)

====
